---- MODULE Spec2Model ----
(***************************************************************************)
(* Fuel Dashboard (alarten2/vasco): the two Streamlit scripts src/app6.py  *)
(* (weekday filtering) and src/app7.py (login gate).  A Streamlit script   *)
(* is re-executed from its first line on every interaction; one action of  *)
(* this model is one such execution.  Dates are day numbers (day 0 is a    *)
(* Monday), cells are whole litres, a metric rounded by .round(1) is kept in *)
(* tenths of a litre, and a ratio is kept as the pair <<numerator,         *)
(* denominator>>.                                                          *)
(***************************************************************************)
EXTENDS Integers, Sequences, FiniteSets, TLC

VARIABLES
    app,              \* which script is deployed: "app6" or "app7"
    authenticated,    \* st.session_state.authenticated (app7)
    username,         \* the text inputs of the login form at the last
    password,         \*   execution that read them (app7)
    uploaded_file,    \* the file the uploader widget holds, or NoFile
    slider,           \* the date slider's widget state, or NoSlider
    reached,          \* the blocks of the script the last execution completed
    error,            \* the exception the last execution caught, or "none"
    df_filtered,      \* the working table (app7 calls it df)
    df_first_day,
    df_last_day,
    df_last_5_days,
    df_selected_date,
    metrics,          \* the computed metric values
    capacity_by_sector,
    unique_sectors,   \* the sectors iterated for the per-sector charts
    figures_to_display,
    display           \* what the execution put on the page, in order

vars == <<app, authenticated, username, password, uploaded_file, slider, reached, error,
          df_filtered, df_first_day, df_last_day, df_last_5_days,
          df_selected_date, metrics, capacity_by_sector, unique_sectors,
          figures_to_display, display>>

----------------------------------------------------------------------------
(* Cells of the uploaded CSV *)

EXCLUDED == "UNDOF Vehicle Registration"

\* An empty cell, which pd.read_csv reads as NaN.
NaN == -1
\* A cell whose text is neither a date nor a number once commas are stripped.
BadCell == -2
\* An empty Sector cell (NaN in an object column).
NaNSector == "nan"

NumericCols == <<"Tank Capacity", "Reported Stock", "Available Storage Space",
                 "Avg Daily Consumption", "Days of Supply">>

AllColumns == {"Date", "Sector", "Post"} \cup {NumericCols[i] : i \in 1..5}

NoFile == [columns |-> {}, rows |-> <<>>, present |-> FALSE]
NoSlider == [min_value |-> NaN, max_value |-> NaN, value |-> NaN]
NoMetrics == [computed |-> FALSE]

----------------------------------------------------------------------------
(* Bounds of the model: the uploads that are tried *)

MaxRows == 2

Row(d, s, p, tc, rs, ass, adc, dos) ==
    [c \in AllColumns |->
        CASE c = "Date" -> d
          [] c = "Sector" -> s
          [] c = "Post" -> p
          [] c = "Tank Capacity" -> tc
          [] c = "Reported Stock" -> rs
          [] c = "Available Storage Space" -> ass
          [] c = "Avg Daily Consumption" -> adc
          [] c = "Days of Supply" -> dos]

\* Day 1 is a Tuesday, 2 a Wednesday, 5 a Saturday, 7 and 8 the next Monday
\* and Tuesday: 2 = 7 - 5 lies on the trailing window's boundary, 1 = 7 - 6
\* lies outside it.
SectorRows ==
    { Row(d, c[1], "P1", c[2], 1, 1, 1, 3) :
        d \in {1, 2},
        c \in ({"A", "B"} \X {0, 1, NaN}) \cup {<<EXCLUDED, 1>>, <<NaNSector, 1>>} }
DateRows ==
    { Row(d, "A", "P1", 1, 3, 1, adc, 3) : d \in {1, 2, 5, 7, 8}, adc \in {1, 2} }
PostRows ==
    { Row(d, s, "P2", 1, 1, 0, 1, 3) : d \in {1, 2}, s \in {"A", "B"} }
BadRows ==
    { Row(BadCell, "A", "P1", 1, 1, 1, 1, 3), Row(1, "A", "P1", BadCell, 1, 1, 1, 3),
      Row(1, "A", "P1", 1, 1, 1, 1, BadCell) }
CoreRows ==
    { Row(1, "A", "P1", 1, 1, 1, 1, 3), Row(2, "B", "P2", 2, 1, 1, 1, 3),
      Row(5, "A", "P2", 1, 1, 1, 2, 3) }

Rows == SectorRows \cup DateRows \cup PostRows \cup BadRows

TablesOver(R) == UNION { [1..n -> R] : n \in 0..MaxRows }

\* Complete files over Rows, and files lacking one required column over CoreRows.
Files ==
    { [columns |-> AllColumns, rows |-> t, present |-> TRUE] : t \in TablesOver(Rows) }
    \cup
    { [columns |-> AllColumns \ {c}, rows |-> t, present |-> TRUE] :
        c \in AllColumns, t \in TablesOver(CoreRows) }

----------------------------------------------------------------------------
(* Table helpers (pandas operations the scripts call) *)

\* Series.sum(): NaN cells are skipped; the sum of nothing is 0.
RECURSIVE Sum(_, _)
Sum(t, col) ==
    IF t = <<>> THEN 0
    ELSE (IF Head(t)[col] = NaN THEN 0 ELSE Head(t)[col]) + Sum(Tail(t), col)

\* The number of non-NaN cells of a column.
RECURSIVE Count(_, _)
Count(t, col) ==
    IF t = <<>> THEN 0
    ELSE (IF Head(t)[col] = NaN THEN 0 ELSE 1) + Count(Tail(t), col)

ColumnValues(t, col) == { t[i][col] : i \in 1..Len(t) }

SetMax(S) == CHOOSE x \in S : \A y \in S : y <= x
SetMin(S) == CHOOSE x \in S : \A y \in S : x <= y

\* round(1) of the ratio n / d, in tenths: numpy rounds the scaled value half to even.
Round1(n, d) ==
    LET q == (10 * n) \div d
        r == (10 * n) % d
    IN  IF 2 * r < d THEN q
        ELSE IF 2 * r > d THEN q + 1
        ELSE IF q % 2 = 0 THEN q ELSE q + 1

----------------------------------------------------------------------------
(* Data cleaning and type conversion: app6.py 17-25, app7.py 39-47 *)

CellFails(t, col) == \E i \in 1..Len(t) : t[i][col] = BadCell

\* The first numeric column, in the loop's order, whose conversion raises.
FirstBadNumeric(file) ==
    LET bad == { i \in 1..5 : \/ NumericCols[i] \notin file.columns
                             \/ CellFails(file.rows, NumericCols[i]) }
    IN  IF bad = {} THEN 0 ELSE SetMin(bad)

\* The exception the cleaning block raises on the file, or "none".
CleanError(file) ==
    IF "Date" \notin file.columns THEN "KeyError"
    ELSE IF CellFails(file.rows, "Date") THEN "ValueError"
    ELSE LET i == FirstBadNumeric(file)
         IN  IF i = 0 THEN "none"
             ELSE IF NumericCols[i] \notin file.columns THEN "KeyError"
             ELSE "ValueError"

----------------------------------------------------------------------------
(* The filters *)

\* Series.dt.dayofweek: Monday is 0, Sunday is 6.
dayofweek(d) == d % 7

\* A weekday filter that keeps every row: the fault the weekday invariant excludes.
WeekdayFilterKeepsAll(t) == t

\* app6.py 29: df[df['Date'].dt.dayofweek < 5]
WeekdayFilter(t) ==
    LET keep(r) == dayofweek(r["Date"]) < 5 IN SelectSeq(t, keep)

\* A sector filter that returns the kept rows last first: the fault the
\* preserved row order excludes.
SectorFilterReversed(t) ==
    LET keep(r) == r["Sector"] # EXCLUDED
        kept == SelectSeq(t, keep)
    IN  [i \in 1..Len(kept) |-> kept[Len(kept) + 1 - i]]

\* A sector filter that keeps every row: the fault the exclusion invariant excludes.
SectorFilterKeepsAll(t) == t

\* app6.py 32, app7.py 50-51: df[df["Sector"] != "UNDOF Vehicle Registration"]
SectorFilter(t) ==
    LET keep(r) == r["Sector"] # EXCLUDED IN SelectSeq(t, keep)

\* The working table of a script: app6 filters weekends, then the sector.
WorkingTable(a, t) ==
    IF a = "app6" THEN SectorFilter(WeekdayFilter(t)) ELSE SectorFilter(t)

----------------------------------------------------------------------------
(* Derived views *)

OnDate(t, d) == LET keep(r) == r["Date"] = d IN SelectSeq(t, keep)

last_day(t) == SetMax(ColumnValues(t, "Date"))
first_day(t) == SetMin(ColumnValues(t, "Date"))

\* df[df['Date'] == df['Date'].max()]; nothing equals NaT when the table is empty.
LastDay(t) == IF t = <<>> THEN <<>> ELSE OnDate(t, last_day(t))

\* df[df['Date'] == df['Date'].min()]
FirstDay(t) == IF t = <<>> THEN <<>> ELSE OnDate(t, first_day(t))

\* df[df["Date"] >= last_day - timedelta(days=5)]
Last5Days(t) ==
    IF t = <<>> THEN <<>>
    ELSE LET last_5_days_start == last_day(t) - 5
             keep(r) == r["Date"] >= last_5_days_start
         IN  SelectSeq(t, keep)

----------------------------------------------------------------------------
(* Metric engine: app6.py 36-73, app7.py 54-74 *)

\* Series.mean() of no values is the Python float nan, which has no round
\* method: .mean().round(1) raises AttributeError.  (No upload of the model
\* has an empty consumption cell, so this is the empty table.)
MeanRoundRaises(t, col) == Count(t, col) = 0

\* Series.mean().round(1), in tenths.
MeanRound(t, col) == Round1(Sum(t, col), Count(t, col))

\* Series.sum().round(1), in tenths.
SumRound(t, col) == 10 * Sum(t, col)

\* (stock / capacity) * 100 if capacity > 0 else 0; stock is in tenths.
Percentage(stock, capacity) ==
    IF capacity > 0 THEN <<100 * stock, 10 * capacity>> ELSE <<0, 1>>

\* 100 - percentage_full_capacity
VacancyRate(pct) == <<100 * pct[2] - pct[1], pct[2]>>

Metrics6(t) ==
    [computed |-> TRUE,
     overall_avg_daily_consumption |-> MeanRound(t, "Avg Daily Consumption"),
     total_consumption_last_day |-> SumRound(LastDay(t), "Avg Daily Consumption"),
     reported_stock_last_day |-> SumRound(LastDay(t), "Reported Stock"),
     avg_consumption_last_5_days |-> MeanRound(Last5Days(t), "Avg Daily Consumption"),
     total_consumption_last_5_days |-> SumRound(Last5Days(t), "Avg Daily Consumption"),
     avg_last_5_days_reported_stock |-> SumRound(Last5Days(t), "Reported Stock"),
     total_tank_capacity |-> Sum(FirstDay(t), "Tank Capacity"),
     percentage_full_capacity |->
         Percentage(SumRound(Last5Days(t), "Reported Stock"),
                    Sum(FirstDay(t), "Tank Capacity")),
     vacancy_rate |->
         VacancyRate(Percentage(SumRound(Last5Days(t), "Reported Stock"),
                                Sum(FirstDay(t), "Tank Capacity")))]

\* app7 computes no last-day metric and no vacancy rate, and its
\* avg_consumption_last_5_days is a sum.
Metrics7(t) ==
    [computed |-> TRUE,
     overall_avg_daily_consumption |-> MeanRound(t, "Avg Daily Consumption"),
     avg_consumption_last_5_days |-> SumRound(Last5Days(t), "Avg Daily Consumption"),
     total_consumption_last_5_days |-> SumRound(Last5Days(t), "Avg Daily Consumption"),
     avg_last_5_days_reported_stock |-> SumRound(Last5Days(t), "Reported Stock"),
     total_tank_capacity |-> Sum(FirstDay(t), "Tank Capacity"),
     percentage_full_capacity |->
         Percentage(SumRound(Last5Days(t), "Reported Stock"),
                    Sum(FirstDay(t), "Tank Capacity"))]

----------------------------------------------------------------------------
(* Capacity by sector: app6.py 89-92, app7.py 89-92 *)

\* The sector labels in lexicographic order, the order groupby sorts its keys in.
SectorLabels == <<"A", "B", EXCLUDED>>

\* groupby('Sector')['Tank Capacity'].sum().reset_index(): one row per label
\* present, keys sorted, rows with a NaN key dropped.
GroupBySector(t) ==
    LET present(s) == s \in ColumnValues(t, "Sector")
        keys == SelectSeq(SectorLabels, present)
    IN  [i \in 1..Len(keys) |->
            LET of(r) == r["Sector"] = keys[i]
            IN  [Sector |-> keys[i],
                 TankCapacity |-> Sum(SelectSeq(t, of), "Tank Capacity")]]

IsDescending(g) ==
    \A i \in 1..Len(g) - 1 : g[i].TankCapacity >= g[i + 1].TankCapacity

\* A sort in ascending order: the fault the descending order excludes.
SortValuesAscending(g) ==
    { p \in { [i \in 1..Len(g) |-> g[f[i]]] : f \in Permutations(1..Len(g)) } :
        \A i \in 1..Len(p) - 1 : p[i].TankCapacity <= p[i + 1].TankCapacity }

\* sort_values(by='Tank Capacity', ascending=False): the default kind is
\* quicksort, which is not stable, so every descending arrangement is possible.
SortValues(g) ==
    { p \in { [i \in 1..Len(g) |-> g[f[i]]] : f \in Permutations(1..Len(g)) } :
        IsDescending(p) }

----------------------------------------------------------------------------
(* Date selector: app6.py 130-144, app7.py 118-128 *)

\* sorted(df['Date'].unique()), as a set: its first element is the minimum and
\* its last the maximum.
unique_dates(t) == ColumnValues(t, "Date")

\* app6.py 131 keeps the weekdays among them.
unique_dates_dt_only(a, t) ==
    IF a = "app6" THEN { d \in unique_dates(t) : dayofweek(d) < 5 } ELSE unique_dates(t)

\* A slider that starts at the first date: the fault the default selection excludes.
SliderDefaultFirst(dates) == SetMin(dates)

\* The value an st.slider defaults to: its value argument, the last date.
SliderDefault(dates) == SetMax(dates)

\* st.slider(min_value=dates[0], max_value=dates[-1], value=dates[-1]): a widget
\* keeps the operator's value while its arguments are those of the previous
\* execution, and starts at its default otherwise.
RenderSlider(w, dates) ==
    IF w.min_value = SetMin(dates) /\ w.max_value = SetMax(dates)
    THEN w
    ELSE [min_value |-> SetMin(dates), max_value |-> SetMax(dates),
          value |-> SliderDefault(dates)]

\* df[df['Date'].dt.date == selected_date]
SelectedDate(t, selected_date) == OnDate(t, selected_date)

----------------------------------------------------------------------------
(* Per-sector charts: app6.py 172-241, app7.py 129, 157-219 *)

None == [empty |-> TRUE]

RECURSIVE Unique(_, _)
\* Series.unique(): the distinct values in order of first appearance, NaN included.
Unique(t, col) ==
    IF t = <<>> THEN <<>>
    ELSE LET init == Unique(SubSeq(t, 1, Len(t) - 1), col)
             v == t[Len(t)][col]
         IN  IF \E i \in 1..Len(init) : init[i] = v THEN init ELSE Append(init, v)

\* app6.py 224-227: unique().tolist(), the excluded label removed if present.
UniqueSectors6(t) ==
    LET keep(s) == s # EXCLUDED IN SelectSeq(Unique(t, "Sector"), keep)

\* app7.py 129: sorted(unique()) compares a NaN (a float) with a label (a str)
\* when both occur, which raises TypeError.
SortedRaises(t) ==
    /\ NaNSector \in ColumnValues(t, "Sector")
    /\ ColumnValues(t, "Sector") # {NaNSector}

UniqueSectors7(t) ==
    IF NaNSector \in ColumnValues(t, "Sector") THEN <<NaNSector>>
    ELSE LET present(s) == s \in ColumnValues(t, "Sector")
         IN  SelectSeq(SectorLabels, present)

\* df_input[df_input['Sector'] == sector_name]; NaN equals nothing.
SectorRowsOf(df_input, sector_name) ==
    LET keep(r) == r["Sector"] = sector_name /\ sector_name # NaNSector
    IN  SelectSeq(df_input, keep)

Series(t, col) == [i \in 1..Len(t) |-> t[i][col]]

\* generate_sector_plots: None for a sector without rows, else a figure with
\* three traces over df_sector['Post'].
generate_sector_plots(df_input, sector_name) ==
    LET df_sector == SectorRowsOf(df_input, sector_name)
    IN  IF df_sector = <<>> THEN None
        ELSE [empty |-> FALSE,
              sector |-> sector_name,
              tank_capacity |-> [x |-> Series(df_sector, "Post"),
                                 y |-> Series(df_sector, "Tank Capacity")],
              available_storage_space |->
                                [x |-> Series(df_sector, "Post"),
                                 y |-> Series(df_sector, "Available Storage Space")],
              days_of_supply |-> [x |-> Series(df_sector, "Post"),
                                  y |-> Series(df_sector, "Days of Supply")]]

\* df_sector['Post'] raises KeyError when the upload has no Post column.
PlotRaises(file, df_input, sectors) ==
    /\ "Post" \notin file.columns
    /\ \E i \in 1..Len(sectors) : SectorRowsOf(df_input, sectors[i]) # <<>>

\* The loop over the sectors: the figures that are not None, in order.
Figures(df_input, sectors) ==
    LET figs == [i \in 1..Len(sectors) |-> generate_sector_plots(df_input, sectors[i])]
        shown(f) == f # None
    IN  SelectSeq(figs, shown)

Repeat(x, n) == [i \in 1..n |-> x]

----------------------------------------------------------------------------
(* One execution of the pipeline on an uploaded file: app6.py 15-246,       *)
(* app7.py 37-223                                                           *)

\* What an execution leaves when it computes and shows nothing.
Blank ==
    [slider |-> NoSlider, reached |-> {}, error |-> "none",
     df_filtered |-> <<>>, df_first_day |-> <<>>, df_last_day |-> <<>>,
     df_last_5_days |-> <<>>, df_selected_date |-> <<>>, metrics |-> NoMetrics,
     capacity_by_sector |-> <<>>, unique_sectors |-> <<>>,
     figures_to_display |-> <<>>, display |-> <<>>]

\* The except handler: st.error, then st.info (app6) or st.warning (app7).
Fail(a, st, e) ==
    [st EXCEPT !.error = e,
               !.display = @ \o <<"error", IF a = "app6" THEN "info" ELSE "warning">>]

\* The script from the upload on, given the slider's widget state w and the
\* arrangement cbs that sort_values produced.
Script(a, file, w, cbs) ==
    LET t == WorkingTable(a, file.rows)
        dates == unique_dates_dt_only(a, t)
        w2 == RenderSlider(w, dates)
        dsel == SelectedDate(t, w2.value)
        sectors == IF a = "app6" THEN UniqueSectors6(t) ELSE UniqueSectors7(t)
        figs == Figures(dsel, sectors)
        cleaned == [Blank EXCEPT !.reached = {"clean"}]
        filtered == [cleaned EXCEPT !.reached = @ \cup {"filter"}, !.df_filtered = t]
        measured ==
            [filtered EXCEPT
                !.reached = @ \cup {"metrics"},
                !.metrics = IF a = "app6" THEN Metrics6(t) ELSE Metrics7(t),
                !.df_first_day = FirstDay(t),
                !.df_last_day = IF a = "app6" THEN LastDay(t) ELSE <<>>,
                !.df_last_5_days = Last5Days(t),
                !.display = Repeat("metric", 6)]
        charted ==
            [measured EXCEPT
                !.reached = @ \cup {"capacity"},
                !.capacity_by_sector = cbs,
                !.display = @ \o Repeat("plotly_chart", IF a = "app6" THEN 3 ELSE 1)]
        \* app6.py 142-144: no selectable date is a warning and an empty selection.
        unselected ==
            [charted EXCEPT !.reached = @ \cup {"slider"}, !.display = @ \o <<"warning">>]
        selected ==
            [charted EXCEPT
                !.reached = @ \cup {"slider"},
                !.slider = w2,
                !.df_selected_date = dsel,
                !.display = @ \o <<"slider">>]
        listed == [selected EXCEPT !.unique_sectors = sectors]
        plotted ==
            [listed EXCEPT
                !.reached = @ \cup {"sectors"},
                !.figures_to_display = IF dsel # <<>> THEN figs ELSE <<>>,
                !.display = @ \o (IF dsel # <<>>
                                  THEN Repeat("plotly_chart", Len(figs))
                                  ELSE IF a = "app6" THEN <<"info">> ELSE <<>>)]
    IN  IF CleanError(file) # "none" THEN Fail(a, Blank, CleanError(file))
        ELSE IF "Sector" \notin file.columns THEN Fail(a, cleaned, "KeyError")
        ELSE IF MeanRoundRaises(t, "Avg Daily Consumption")
             THEN Fail(a, filtered, "AttributeError")
        ELSE IF dates = {}
             THEN IF a = "app7" THEN Fail(a, charted, "IndexError")
                  ELSE [unselected EXCEPT
                           !.reached = @ \cup {"sectors"},
                           !.unique_sectors = sectors,
                           !.display = @ \o <<"info">>]
        ELSE IF a = "app7" /\ SortedRaises(t) THEN Fail(a, selected, "TypeError")
        ELSE IF dsel # <<>> /\ PlotRaises(file, dsel, sectors)
             THEN Fail(a, listed, "KeyError")
        ELSE plotted

\* The arrangements of the capacity chart the execution may produce.
CapacityOrders(a, file) ==
    IF CleanError(file) # "none" \/ "Sector" \notin file.columns
    THEN {<<>>}
    ELSE SortValues(GroupBySector(FirstDay(WorkingTable(a, file.rows))))

Install(out) ==
    /\ slider' = out.slider
    /\ reached' = out.reached
    /\ error' = out.error
    /\ df_filtered' = out.df_filtered
    /\ df_first_day' = out.df_first_day
    /\ df_last_day' = out.df_last_day
    /\ df_last_5_days' = out.df_last_5_days
    /\ df_selected_date' = out.df_selected_date
    /\ metrics' = out.metrics
    /\ capacity_by_sector' = out.capacity_by_sector
    /\ unique_sectors' = out.unique_sectors
    /\ figures_to_display' = out.figures_to_display
    /\ display' = out.display

----------------------------------------------------------------------------
(* The session *)

\* st.secrets["USERNAME"], st.secrets["PASSWORD"], and what an operator may type.
USERNAME == "user"
PASSWORD == "secret"
Typed == {USERNAME, PASSWORD, "other"}

\* An uploader rendered whatever the flag: the fault the login gate excludes.
UploaderAlwaysRendered == TRUE

\* app7.py 17-31: the uploader is rendered only once authenticated; app6 has no gate.
UploaderRendered == app = "app6" \/ authenticated

\* What an execution shows when it stops before the pipeline.
Page(what) == [Blank EXCEPT !.display = what]

\* The first execution: app6 asks for a file, app7 shows the login form.
Init ==
    /\ app \in {"app6", "app7"}
    /\ authenticated = FALSE
    /\ username = ""
    /\ password = ""
    /\ uploaded_file = NoFile
    /\ slider = NoSlider
    /\ reached = {}
    /\ error = "none"
    /\ df_filtered = <<>>
    /\ df_first_day = <<>>
    /\ df_last_day = <<>>
    /\ df_last_5_days = <<>>
    /\ df_selected_date = <<>>
    /\ metrics = NoMetrics
    /\ capacity_by_sector = <<>>
    /\ unique_sectors = <<>>
    /\ figures_to_display = <<>>
    /\ display = IF app = "app6" THEN <<"info">> ELSE <<"login_form">>

\* app7.py 22-30: the Login button.  A match sets the flag and reruns the
\* script, which now asks for a file; a mismatch reports an error.
Login(u, p) ==
    /\ app = "app7"
    /\ ~authenticated
    /\ username' = u
    /\ password' = p
    /\ IF username' = USERNAME /\ password' = PASSWORD
       THEN /\ authenticated' = TRUE
            /\ Install(Page(<<"info">>))
       ELSE /\ authenticated' = authenticated
            /\ Install(Page(<<"login_form", "error">>))
    /\ UNCHANGED <<app, uploaded_file>>

\* The operator gives the empty uploader a file: the script runs on it.
Upload ==
    /\ UploaderRendered
    /\ uploaded_file = NoFile
    /\ \E file \in Files :
          /\ uploaded_file' = file
          /\ \E cbs \in CapacityOrders(app, file) :
                Install(Script(app, file, slider, cbs))
    /\ UNCHANGED <<app, authenticated, username, password>>

\* The operator clears the uploader: the script asks for a file again.
RemoveFile ==
    /\ UploaderRendered
    /\ uploaded_file # NoFile
    /\ uploaded_file' = NoFile
    /\ Install(Page(<<"info">>))
    /\ UNCHANGED <<app, authenticated, username, password>>

\* The operator moves the date slider, which steps by days between its
\* bounds: the script runs again on the same file.
MoveSlider(d) ==
    /\ UploaderRendered
    /\ uploaded_file # NoFile
    /\ slider # NoSlider
    /\ d \in slider.min_value..slider.max_value
    /\ d # slider.value
    /\ \E cbs \in CapacityOrders(app, uploaded_file) :
          Install(Script(app, uploaded_file, [slider EXCEPT !.value = d], cbs))
    /\ UNCHANGED <<app, authenticated, username, password, uploaded_file>>

SliderDays == 0..9

Next ==
    \/ \E u \in Typed, p \in Typed : Login(u, p)
    \/ Upload
    \/ RemoveFile
    \/ \E d \in SliderDays : MoveSlider(d)

Spec == Init /\ [][Next]_vars

----------------------------------------------------------------------------
(* Properties *)

Views == {df_filtered, df_first_day, df_last_day, df_last_5_days, df_selected_date}

HasExcludedRow(t) == \E i \in 1..Len(t) : t[i]["Sector"] = EXCLUDED
HasWeekendRow(t) == \E i \in 1..Len(t) : dayofweek(t[i]["Date"]) >= 5

\* C1: after any upload no row of the working table or of a derived view has
\* the excluded sector, the excluded label is not among the sectors iterated
\* for the per-sector charts nor in the capacity chart, and total_tank_capacity
\* is the capacity of the first-day rows, none of which is excluded.
C1_ExclusionInvariant ==
    /\ \A v \in Views : ~HasExcludedRow(v)
    /\ \A i \in 1..Len(unique_sectors) : unique_sectors[i] # EXCLUDED
    /\ \A i \in 1..Len(capacity_by_sector) : capacity_by_sector[i].Sector # EXCLUDED
    /\ \A i \in 1..Len(figures_to_display) : figures_to_display[i].sector # EXCLUDED
    /\ metrics.computed =>
          /\ metrics.total_tank_capacity = Sum(df_first_day, "Tank Capacity")
          /\ ~HasExcludedRow(df_first_day)

\* An upload with an excluded-sector row on its first day ran to the end.
C1_Witness ==
    /\ "sectors" \in reached
    /\ \E i \in 1..Len(uploaded_file.rows) :
          /\ uploaded_file.rows[i]["Sector"] = EXCLUDED
          /\ uploaded_file.rows[i]["Date"] = first_day(df_filtered)
          /\ uploaded_file.rows[i]["Tank Capacity"] > 0

\* C2: in app6 the working table, every derived view and every per-sector
\* chart hold only Monday-to-Friday rows, and the metrics are those of that
\* weekday-only table.
C2_WeekdayInvariant ==
    app = "app6" =>
        /\ \A v \in Views : ~HasWeekendRow(v)
        /\ slider # NoSlider =>
              dayofweek(slider.min_value) < 5 /\ dayofweek(slider.max_value) < 5
        /\ metrics.computed => metrics = Metrics6(df_filtered)

\* An app6 upload with a Saturday row ran to the end.
C2_Witness ==
    /\ app = "app6"
    /\ "sectors" \in reached
    /\ HasWeekendRow(uploaded_file.rows)

\* Equality of two ratios <<numerator, denominator>>.
RatEq(a, b) == a[1] * b[2] = b[1] * a[2]

\* C3: whenever a working table was built, the percentages are evaluated and
\* no division error is raised; if the first-day capacities sum to zero (the
\* empty working table included) percentage_full_capacity is 0 and
\* vacancy_rate is 100, and otherwise they are stock / capacity * 100 and 100
\* minus that.  (The vacancy rate is looked at where a script computes one.)
C3_ZeroDenominatorSafety ==
    "filter" \in reached =>
        LET capacity == Sum(FirstDay(df_filtered), "Tank Capacity")
            stock == Sum(Last5Days(df_filtered), "Reported Stock")
            expected == IF capacity = 0 THEN <<0, 1>> ELSE <<100 * stock, capacity>>
        IN  /\ error # "ZeroDivisionError"
            /\ metrics.computed
            /\ RatEq(metrics.percentage_full_capacity, expected)
            /\ app = "app6" =>
                  RatEq(metrics.vacancy_rate, <<100 * expected[2] - expected[1], expected[2]>>)

\* C4: the trailing-window subset is exactly the working-table rows dated on
\* or after the maximum date minus 5 days, avg_consumption_last_5_days is the
\* mean and total_consumption_last_5_days the sum of their consumption.
C4_TrailingWindow ==
    metrics.computed =>
        LET D == SetMax(ColumnValues(df_filtered, "Date"))
            inWindow(r) == r["Date"] >= D - 5
            window == SelectSeq(df_filtered, inWindow)
        IN  /\ df_last_5_days = window
            /\ metrics.avg_consumption_last_5_days =
                  Round1(Sum(window, "Avg Daily Consumption"), Len(window))
            /\ metrics.total_consumption_last_5_days =
                  10 * Sum(window, "Avg Daily Consumption")

RECURSIVE SumOfTotals(_)
SumOfTotals(g) ==
    IF g = <<>> THEN 0 ELSE Head(g).TankCapacity + SumOfTotals(Tail(g))

\* C5: the per-sector capacity totals add up to total_tank_capacity, the
\* capacity of the whole first-day subset.
C5_GroupingSum ==
    "capacity" \in reached =>
        SumOfTotals(capacity_by_sector) = metrics.total_tank_capacity

\* The sector labels of a table, a missing sector not being one.
NamedSectors(t) == ColumnValues(t, "Sector") \ {NaNSector}

\* The row at which a sector is first met in a table.
FirstIndex(t, s) == SetMin({ i \in 1..Len(t) : t[i]["Sector"] = s })

\* One entry per sector label of the first-day subset, each with the summed
\* capacity of the label's rows, in descending order of that sum.
DescendingTotals ==
    /\ { capacity_by_sector[i].Sector : i \in 1..Len(capacity_by_sector) }
          = NamedSectors(df_first_day)
    /\ Len(capacity_by_sector) = Cardinality(NamedSectors(df_first_day))
    /\ \A i \in 1..Len(capacity_by_sector) :
          LET of(r) == r["Sector"] = capacity_by_sector[i].Sector
          IN  capacity_by_sector[i].TankCapacity =
                 Sum(SelectSeq(df_first_day, of), "Tank Capacity")
    /\ \A i, j \in 1..Len(capacity_by_sector) :
          i < j => capacity_by_sector[i].TankCapacity >= capacity_by_sector[j].TankCapacity

\* C6 as stated: the totals are as above and sectors with equal sums appear in
\* the order in which they are first met in the table.
C6_TiesInDiscoveryOrder ==
    "capacity" \in reached =>
        /\ DescendingTotals
        /\ \A i, j \in 1..Len(capacity_by_sector) :
              (i < j /\ capacity_by_sector[i].TankCapacity = capacity_by_sector[j].TankCapacity)
                 => FirstIndex(df_first_day, capacity_by_sector[i].Sector)
                       < FirstIndex(df_first_day, capacity_by_sector[j].Sector)

\* C6, amended: capacity-by-sector has one entry per sector label of the
\* first-day subset with its summed capacity, in descending order of the sum;
\* the order among equal sums is not fixed by the order of the table.
C6_DescendingTotals == "capacity" \in reached => DescendingTotals

\* Two sectors with different totals were charted.
C6_Witness ==
    /\ "capacity" \in reached
    /\ Len(capacity_by_sector) = 2
    /\ capacity_by_sector[1].TankCapacity > capacity_by_sector[2].TankCapacity

\* The upload lacks a required column, or holds a date or number that does not parse.
Malformed(file) ==
    \/ file.columns # AllColumns
    \/ \E c \in AllColumns \ {"Sector", "Post"} : CellFails(file.rows, c)

\* C7: on a malformed upload the execution reports an error and shows no
\* metric tile and no chart.
C7_NoPartialResults ==
    (uploaded_file.present /\ Malformed(uploaded_file)) =>
        /\ error # "none"
        /\ \A i \in 1..Len(display) : display[i] \notin {"metric", "plotly_chart"}

\* C8: an empty working table is not an error: no date is selectable, no
\* per-sector chart is made, a notice is shown and the execution completes.
C8_EmptyTableIsNotAnError ==
    ("filter" \in reached /\ df_filtered = <<>>) =>
        /\ error = "none"
        /\ slider = NoSlider
        /\ figures_to_display = <<>>
        /\ \E i \in 1..Len(display) : display[i] \in {"info", "warning"}
        /\ "sectors" \in reached

\* C9: once a date is selected on an upload with every required column,
\* nothing is raised; a sector of the working table without rows on that date
\* gets None and no chart, and every sector with rows on it gets exactly one
\* chart, whose three series run over the posts of those rows.
C9_SectorsWithoutData ==
    ("slider" \in reached /\ slider # NoSlider /\ uploaded_file.columns = AllColumns) =>
        /\ error = "none"
        /\ \A s \in NamedSectors(df_filtered) :
              LET match(r) == r["Date"] = slider.value /\ r["Sector"] = s
                  rows == SelectSeq(df_filtered, match)
                  charts == { i \in 1..Len(figures_to_display) :
                                figures_to_display[i].sector = s }
              IN  IF rows = <<>>
                  THEN /\ generate_sector_plots(df_selected_date, s) = None
                       /\ charts = {}
                  ELSE /\ Cardinality(charts) = 1
                       /\ \A i \in charts :
                             /\ figures_to_display[i].tank_capacity.x = Series(rows, "Post")
                             /\ figures_to_display[i].available_storage_space.x
                                   = Series(rows, "Post")
                             /\ figures_to_display[i].days_of_supply.x = Series(rows, "Post")

DateSelectorStep ==
    slider' # NoSlider =>
        LET dates == ColumnValues(df_filtered', "Date")
            onSelected(r) == r["Date"] = slider'.value
            onLast(r) == \A d \in dates : d <= r["Date"]
        IN  /\ dates # {}
            /\ slider'.min_value \in dates /\ \A d \in dates : slider'.min_value <= d
            /\ slider'.max_value \in dates /\ \A d \in dates : d <= slider'.max_value
            /\ slider'.value \in slider'.min_value..slider'.max_value
            /\ df_selected_date' = SelectSeq(df_filtered', onSelected)
            /\ slider = NoSlider => slider'.value = slider'.max_value
            /\ slider'.value = slider'.max_value =>
                  /\ df_selected_date' = SelectSeq(df_filtered', onLast)
                  /\ df_selected_date' # <<>>

PipelineInvoked ==
    \/ uploaded_file.present
    \/ reached # {}
    \/ metrics.computed
    \/ \E i \in 1..Len(display) : display[i] \in {"metric", "plotly_chart", "slider"}

\* What a step of the gated script app7 does to the flag.
LoginGateStep ==
    app = "app7" =>
        /\ PipelineInvoked' => authenticated'
        /\ authenticated => authenticated'
        /\ (~authenticated /\ authenticated') =>
              (username' = USERNAME /\ password' = PASSWORD)
        /\ (~authenticated /\ username' = USERNAME /\ password' = PASSWORD) =>
              authenticated'

\* C11: in app7 the pipeline never runs in an execution whose authenticated
\* flag is false; the flag turns true by, and only by, a login attempt whose
\* username and password both equal the configured secrets, a mismatching
\* attempt leaves it false, and once true it stays true.
C11_LoginGate ==
    /\ (app = "app7" /\ PipelineInvoked) => authenticated
    /\ [][LoginGateStep]_vars

\* After a matching login, app7 ran the pipeline to its last stage.
C11_Witness ==
    /\ app = "app7"
    /\ authenticated
    /\ "sectors" \in reached

RECURSIVE Subtable(_, _)
\* The rows of a table at the positions I, in the table's order.
Subtable(t, I) ==
    IF I = {} THEN <<>>
    ELSE LET i == SetMin(I) IN <<t[i]>> \o Subtable(t, I \ {i})

\* C12: each filter returns exactly the rows it keeps, in the order of the
\* table it is given, and applied to its own output returns that output: on
\* the uploaded rows and on the working table the script built.
C12_FiltersIdempotent ==
    "filter" \in reached =>
        LET raw == uploaded_file.rows
            notExcluded == { i \in 1..Len(raw) : raw[i]["Sector"] # EXCLUDED }
            onWeekday == { i \in 1..Len(raw) : dayofweek(raw[i]["Date"]) < 5 }
        IN  /\ SectorFilter(raw) = Subtable(raw, notExcluded)
            /\ WeekdayFilter(raw) = Subtable(raw, onWeekday)
            /\ SectorFilter(SectorFilter(raw)) = SectorFilter(raw)
            /\ WeekdayFilter(WeekdayFilter(raw)) = WeekdayFilter(raw)
            /\ SectorFilter(df_filtered) = df_filtered
            /\ app = "app6" => WeekdayFilter(df_filtered) = df_filtered
            /\ df_filtered = Subtable(raw, IF app = "app6"
                                           THEN notExcluded \cap onWeekday
                                           ELSE notExcluded)

\* A filter dropped one row of an upload and kept the other.
C12_Witness ==
    /\ "filter" \in reached
    /\ Len(df_filtered) > 0
    /\ Len(df_filtered) < Len(uploaded_file.rows)

====
